---- MODULE Spec2Model ----
(***************************************************************************)
(* Model of src/project/ray_tracing/ray_tracing.py: class RayTracing.       *)
(*                                                                         *)
(* A RayTracing object holds a seismic model (a list of layers), an        *)
(* incidence angle and a source depth.  Two public entries exist:          *)
(* check_input_data_correctness (validation, then trace_ray) and trace_ray *)
(* itself, which the module's own last line calls directly.                *)
(*                                                                         *)
(* Python values are modelled as records [k, n]: k = "int" for a number    *)
(* with value n, k = "str" for a non-numeric value.  Floating-point        *)
(* quantities are kept in fixed point with Scale units per unit; the sine  *)
(* of an angle is kept as an exact fraction sn/sd.                         *)
(***************************************************************************)
EXTENDS Integers, Sequences, FiniteSets, TLC

VARIABLES seismic_model, incid_angle, source_depth,
          pc, called, evaluated, result, traces,
          i, cur_angle, existing_counter, layers_values, label_values,
          idxs, coords, rendered

vars == <<seismic_model, incid_angle, source_depth,
          pc, called, evaluated, result, traces,
          i, cur_angle, existing_counter, layers_values, label_values,
          idxs, coords, rendered>>

inputs == <<seismic_model, incid_angle, source_depth>>
locals == <<i, cur_angle, existing_counter, layers_values, label_values, idxs>>

----------------------------------------------------------------------------
(* Bounds of the model *)

\* longest seismic model that is enumerated
MaxLayers == 3
\* fixed-point units per unit of length (and of tangent)
Scale == 100
\* fixed-point tangent of an angle whose sine is 1 (the float tangent is
\* finite but astronomically large there)
TanMax == 2000

----------------------------------------------------------------------------
(* Python values *)

Int_(n) == [k |-> "int", n |-> n]
Str_ == [k |-> "str", n |-> 0]
IsNum(v) == v.k = "int"

Abs(x) == IF x < 0 THEN -x ELSE x

RECURSIVE GCD(_, _)
GCD(a, b) == IF b = 0 THEN a ELSE GCD(b, a % b)

\* the fraction n/d in lowest terms with a positive denominator
Frac(n, d) ==
    LET g == GCD(Abs(n), Abs(d))
        s == IF d < 0 THEN -1 ELSE 1
    IN  <<s * (n \div g), Abs(d) \div g>>

RECURSIVE SqrtIter(_, _)
SqrtIter(n, r) ==
    LET r2 == (r + n \div r) \div 2
    IN  IF r2 >= r THEN r ELSE SqrtIter(n, r2)

\* math.sqrt, truncated to an integer
ISqrt(n) == IF n <= 0 THEN 0 ELSE SqrtIter(n, n)

----------------------------------------------------------------------------
(* Angles.  An angle value is [num, sn, sd, obt, ex]: num is FALSE for a   *)
(* non-numeric value; sn/sd is its sine; obt says the angle is obtuse (its *)
(* cosine is negative); ex says the float equals the whole number of       *)
(* degrees whose sine is sn/sd, so that it compares equal to that integer. *)

\* sin(radians(d)) for the whole-degree angles that are enumerated
SinDeg(d) ==
    CASE d = 0   -> <<0, 1>>
      [] d = 30  -> <<1, 2>>
      [] d = -30 -> <<-1, 2>>
      [] d = 150 -> <<1, 2>>
      [] d = -2  -> <<-7, 200>>
      [] d = 2   -> <<7, 200>>

DegAngle(d) ==
    [num |-> TRUE, sn |-> SinDeg(d)[1], sd |-> SinDeg(d)[2],
     obt |-> Abs(d) > 90, ex |-> TRUE]

NoAngle == [num |-> FALSE, sn |-> 0, sd |-> 1, obt |-> FALSE, ex |-> FALSE]

AngleOfVal(v) == IF IsNum(v) THEN DegAngle(v.n) ELSE NoAngle

\* the value -2 that count_angle returns and the loop compares with
Sentinel == DegAngle(-2)

----------------------------------------------------------------------------
(* Geometry helpers of the class *)

\* get_thickness without fabs
get_thickness_Signed(layer_bottom, layer_top) == layer_bottom.n - layer_top.n

\* get_thickness: fabs(layer_bottom - layer_top)
get_thickness(layer_bottom, layer_top) == Abs(layer_bottom.n - layer_top.n)

\* source_depth in range(top, bottom): integer-range membership
InRange(d, top, bottom) == IsNum(d) /\ top.n <= d.n /\ d.n < bottom.n

\* is_layer_exist_source(layer_number); layer_number counts from 0
is_layer_exist_source(m, d, layer_number) ==
    InRange(d, m[layer_number + 1][1], m[layer_number + 1][2])

\* tan(radians(angle)) in fixed point
TanS(a) ==
    LET sgn == (IF a.sn < 0 THEN -1 ELSE 1) * (IF a.obt THEN -1 ELSE 1)
        c2  == a.sd * a.sd - a.sn * a.sn
    IN  IF c2 <= 0 THEN sgn * TanMax
        ELSE sgn * ISqrt((a.sn * a.sn * Scale * Scale) \div c2)

\* find_x_length without the tangent factor
find_x_length_NoTan(triangle_angle, thickness) == Scale * thickness

\* find_x_length: tan(radians(triangle_angle)) * thickness, in fixed point
find_x_length(triangle_angle, thickness) == TanS(triangle_angle) * thickness

\* find_ray_length: sqrt(thickness ** 2 + x_length ** 2), in fixed point
find_ray_length(thickness, x_length) ==
    ISqrt((thickness * Scale) * (thickness * Scale) + x_length * x_length)

\* count_ray_duration: ray_length / layer_speed, in fixed point
count_ray_duration(ray_length, layer_speed) == ray_length \div layer_speed

\* sin(radians(cur_angle)) alone, the speed ratio forgotten
SinBeta_NoRatio(cur, lower_layer_speed, upper_layer_speed) == Frac(cur.sn, cur.sd)

\* sin(radians(cur_angle)) * (upper_layer_speed / lower_layer_speed)
SinBeta(cur, lower_layer_speed, upper_layer_speed) ==
    Frac(cur.sn * upper_layer_speed, cur.sd * lower_layer_speed)

\* whether degrees(asin(sin_beta)) is exactly the whole number of degrees
\* with that sine.  asin(0.0) is 0.0.  degrees(asin(sin(radians(-2)) * 1.0))
\* is exactly -2.0, while for 30 the round trip gives 29.999999999999996.
\* When the sine of -2 degrees is reached through other speed ratios the
\* rounding decides, and both outcomes are kept.
ExactOutcomes(sb, cur, lower_layer_speed, upper_layer_speed) ==
    IF sb[1] = 0 THEN {TRUE}
    ELSE IF sb = SinDeg(-2)
         THEN IF cur = Sentinel /\ upper_layer_speed = lower_layer_speed
              THEN {TRUE} ELSE {TRUE, FALSE}
         ELSE {FALSE}

\* count_angle that hands back the incoming angle when it is not critical
count_angle_Unrefracted(cur, lower_layer_speed, upper_layer_speed) ==
    LET sb == SinBeta(cur, lower_layer_speed, upper_layer_speed)
    IN  IF Abs(sb[1]) > sb[2] THEN {Sentinel} ELSE {cur}

\* count_angle: the possible return values
count_angle(cur, lower_layer_speed, upper_layer_speed) ==
    LET sb == SinBeta(cur, lower_layer_speed, upper_layer_speed)
    IN  IF Abs(sb[1]) > sb[2]
        THEN {Sentinel}
        ELSE {[num |-> TRUE, sn |-> sb[1], sd |-> sb[2], obt |-> FALSE, ex |-> e] :
                 e \in ExactOutcomes(sb, cur, lower_layer_speed, upper_layer_speed)}

\* the test at line 67 without the counter
IsSourceLayer_NoCounter(is_exist, counter) == is_exist

\* the test at line 67 that makes layer i the source layer
IsSourceLayer(is_exist, counter) == is_exist /\ counter = 0

\* create_coordinates: x and y start at 0 and source_depth and accumulate
RECURSIVE CoordX(_, _)
CoordX(lv, n) == IF n = 0 THEN <<0>>
                 ELSE LET x == CoordX(lv, n - 1) IN Append(x, lv[n][1] + x[n])

RECURSIVE CoordY(_, _, _)
CoordY(lv, d, n) == IF n = 0 THEN <<d.n>>
                    ELSE LET y == CoordY(lv, d, n - 1) IN Append(y, lv[n][2] + y[n])

create_coordinates(lv, d) == <<CoordX(lv, Len(lv)), CoordY(lv, d, Len(lv))>>

----------------------------------------------------------------------------
(* Validation *)

MsgLayer  == "Layer data is incorrect"
MsgType   == "Input data is not integer or float"
MsgSpeed  == "Speed value is not correct"
MsgSource == "Source dont occur in seismic model."
Messages  == {MsgLayer, MsgType, MsgSpeed, MsgSource}
Exceptions == {"TypeError", "IndexError", "ZeroDivisionError"}

\* is_layer_data_count_correct with <= in place of ==
is_layer_data_count_correct_AtMost(m) == \A j \in 1..Len(m) : Len(m[j]) <= 3

\* is_layer_data_count_correct
is_layer_data_count_correct(m) == \A j \in 1..Len(m) : Len(m[j]) = 3

\* the class object float, used as an operand of `or`, is true
FloatTruthy == TRUE

\* is_input_data_integer_or_float: "True", "False", or the exception raised
\* by layer[i] on a layer with fewer than 3 fields
is_input_data_integer_or_float(m, a, d) ==
    IF \E j \in 1..Len(m) : Len(m[j]) < 3 THEN "IndexError"
    ELSE IF ~ \A j \in 1..Len(m) : \A f \in 1..3 : (m[j][f].k = "int") \/ FloatTruthy
         THEN "False"
    ELSE IF (a.k # "int") \/ FloatTruthy THEN "False"
    ELSE IF (d.k # "int") \/ FloatTruthy THEN "False"
    ELSE "True"

\* is_speed_data_correct from layer j on: layer[2] > 0 raises on a string
RECURSIVE SpeedScan(_, _)
SpeedScan(m, j) ==
    IF j > Len(m) THEN "True"
    ELSE IF ~IsNum(m[j][3]) THEN "TypeError"
    ELSE IF m[j][3].n > 0 THEN SpeedScan(m, j + 1)
    ELSE "False"

is_speed_data_correct(m) == SpeedScan(m, 1)

\* is_source_occur_in_seismic_model from layer j on: range() raises on a string
RECURSIVE SourceScan(_, _, _)
SourceScan(m, d, j) ==
    IF j > Len(m) THEN "False"
    ELSE IF ~IsNum(m[j][1]) \/ ~IsNum(m[j][2]) THEN "TypeError"
    ELSE IF InRange(d, m[j][1], m[j][2]) THEN "True"
    ELSE SourceScan(m, d, j + 1)

is_source_occur_in_seismic_model(m, d) == SourceScan(m, d, 1)

\* check_input_data_correctness up to the call of trace_ray: the checks that
\* were evaluated, in order, and the outcome: a message, an exception, or
\* "trace" when trace_ray is to be called
CheckFlow(m, a, d) ==
    IF ~is_layer_data_count_correct(m)
    THEN [ev |-> <<"count">>, out |-> MsgLayer]
    ELSE LET t == is_input_data_integer_or_float(m, a, d) IN
    IF t # "True"
    THEN [ev |-> <<"count", "type">>, out |-> IF t = "False" THEN MsgType ELSE t]
    ELSE LET s == is_speed_data_correct(m) IN
    IF s # "True"
    THEN [ev |-> <<"count", "type", "speed">>,
          out |-> IF s = "False" THEN MsgSpeed ELSE s]
    ELSE LET c == is_source_occur_in_seismic_model(m, d) IN
    IF c # "True"
    THEN [ev |-> <<"count", "type", "speed", "source">>,
          out |-> IF c = "False" THEN MsgSource ELSE c]
    ELSE [ev |-> <<"count", "type", "speed", "source">>, out |-> "trace"]

----------------------------------------------------------------------------
(* Inputs that are enumerated *)

Spans  == {<<0, 10>>, <<10, 20>>, <<20, 10>>}
Speeds == {1, 2, 3}

\* well-formed layers, a layer with zero speed, a layer with 2 fields and a
\* layer with a non-numeric speed
LayerSet ==
    {<<Int_(sp[1]), Int_(sp[2]), Int_(v)>> : sp \in Spans, v \in Speeds}
    \cup {<<Int_(0), Int_(10), Int_(0)>>,
          <<Int_(0), Int_(10)>>,
          <<Int_(0), Int_(10), Str_>>}

RECURSIVE SeqsUpTo(_, _)
SeqsUpTo(S, n) ==
    IF n = 0 THEN {<<>>}
    ELSE LET shorter == SeqsUpTo(S, n - 1)
         IN  shorter \cup {Append(q, e) : q \in {t \in shorter : Len(t) = n - 1}, e \in S}

Models == {m \in SeqsUpTo(LayerSet, MaxLayers) : Len(m) >= 1}
Angles == {Int_(0), Int_(30), Int_(-2), Int_(150), Str_}
Depths == {Int_(5), Int_(10), Int_(25), Str_}

----------------------------------------------------------------------------
(* The state machine *)

\* __init__ has stored the three arguments; nothing has been called
Init ==
    /\ seismic_model \in Models
    /\ incid_angle \in Angles
    /\ source_depth \in Depths
    /\ pc = "init"
    /\ called = "none"
    /\ evaluated = <<>>
    /\ result = "none"
    /\ traces = 0
    /\ i = 0
    /\ cur_angle = DegAngle(0)
    /\ existing_counter = 0
    /\ layers_values = <<>>
    /\ label_values = <<>>
    /\ idxs = <<>>
    /\ coords = <<<<>>, <<>>>>
    /\ rendered = FALSE

\* check_input_data_correctness, up to its return or its call of trace_ray
check_input_data_correctness ==
    /\ pc = "init"
    /\ LET f == CheckFlow(seismic_model, incid_angle, source_depth) IN
        /\ evaluated' = f.ev
        /\ pc' = IF f.out = "trace" THEN "trace"
                 ELSE IF f.out \in Exceptions THEN "raised" ELSE "returned"
        /\ result' = IF f.out = "trace" THEN "none" ELSE f.out
    /\ called' = "check_input_data_correctness"
    /\ UNCHANGED <<inputs, traces, locals, coords, rendered>>

\* trace_ray is entered, from check_input_data_correctness or directly (as
\* the last line of the module does), and calculate_ray_tracing_values
\* initialises its locals
trace_ray ==
    /\ pc \in {"init", "trace"}
    /\ called' = IF pc = "init" THEN "trace_ray" ELSE called
    /\ traces' = traces + 1
    /\ i' = 0
    /\ cur_angle' = DegAngle(0)
    /\ existing_counter' = 0
    /\ layers_values' = <<>>
    /\ label_values' = <<>>
    /\ idxs' = <<>>
    /\ pc' = "loop"
    /\ UNCHANGED <<inputs, evaluated, result, coords, rendered>>

\* the next values of the loop's state
Upd(pc2, res2, i2, cur2, cnt2, lv2, lab2, idx2) ==
    /\ pc' = pc2
    /\ result' = res2
    /\ i' = i2
    /\ cur_angle' = cur2
    /\ existing_counter' = cnt2
    /\ layers_values' = lv2
    /\ label_values' = lab2
    /\ idxs' = idx2

\* one iteration of the loop of calculate_ray_tracing_values
LoopStep ==
    /\ pc = "loop"
    /\ i < Len(seismic_model)
    /\ UNCHANGED <<inputs, called, evaluated, traces, coords, rendered>>
    /\ LET layer == seismic_model[i + 1]
           Raise(e, cur2, cnt2) ==
               Upd("raised", e, i, cur2, cnt2, layers_values, label_values, idxs)
       IN
       IF Len(layer) < 2 THEN Raise("IndexError", cur_angle, existing_counter)
       ELSE IF ~IsNum(layer[1]) \/ ~IsNum(layer[2])
       THEN Raise("TypeError", cur_angle, existing_counter)
       ELSE
       LET is_exist == is_layer_exist_source(seismic_model, source_depth, i)
           src == IsSourceLayer(is_exist, existing_counter)
           angle == IF src THEN AngleOfVal(incid_angle) ELSE cur_angle
           thickness == IF src THEN get_thickness(layer[2], source_depth)
                        ELSE get_thickness(layer[2], layer[1])
           cnt == IF src THEN existing_counter + 1 ELSE existing_counter
       IN
       IF ~is_exist /\ cnt = 0
       THEN Upd("loop", result, i + 1, angle, cnt, layers_values, label_values, idxs)
       ELSE IF ~angle.num THEN Raise("TypeError", angle, cnt)
       ELSE IF Len(layer) < 3 THEN Raise("IndexError", angle, cnt)
       ELSE IF ~IsNum(layer[3]) THEN Raise("TypeError", angle, cnt)
       ELSE IF layer[3].n = 0 THEN Raise("ZeroDivisionError", angle, cnt)
       ELSE
       LET x_length == find_x_length(angle, thickness)
           ray_length == find_ray_length(thickness, x_length)
           time == count_ray_duration(ray_length, layer[3].n)
           lv == Append(layers_values, <<x_length, thickness>>)
           lab == Append(label_values, <<angle, time>>)
           ix == Append(idxs, i)
       IN
       IF i = Len(seismic_model) - 1
       THEN Upd("loop", result, i + 1, angle, cnt, lv, lab, ix)
       ELSE
       LET next == seismic_model[i + 2] IN
       IF Len(next) < 3 THEN Upd("raised", "IndexError", i, angle, cnt, lv, lab, ix)
       ELSE IF ~IsNum(next[3]) THEN Upd("raised", "TypeError", i, angle, cnt, lv, lab, ix)
       ELSE \E na \in count_angle(angle, layer[3].n, next[3].n) :
               IF na = Sentinel
               THEN Upd("coords", result, i, na, cnt, lv, lab, ix)
               ELSE Upd("loop", result, i + 1, na, cnt, lv, lab, ix)

\* the loop has run through every layer; calculate_ray_tracing_values returns
LoopEnd ==
    /\ pc = "loop"
    /\ i = Len(seismic_model)
    /\ pc' = "coords"
    /\ UNCHANGED <<inputs, called, evaluated, result, traces, locals, coords, rendered>>

\* trace_ray calls create_coordinates
CreateCoordinates ==
    /\ pc = "coords"
    /\ coords' = create_coordinates(layers_values, source_depth)
    /\ pc' = "render"
    /\ UNCHANGED <<inputs, called, evaluated, result, traces, locals, rendered>>

\* trace_ray hands the vertices and labels to build_graph and create_labels
\* and returns None
Render ==
    /\ pc = "render"
    /\ rendered' = TRUE
    /\ result' = "None"
    /\ pc' = "done"
    /\ UNCHANGED <<inputs, called, evaluated, traces, locals, coords>>

Next ==
    \/ check_input_data_correctness
    \/ trace_ray
    \/ LoopStep
    \/ LoopEnd
    \/ CreateCoordinates
    \/ Render

Spec == Init /\ [][Next]_vars

----------------------------------------------------------------------------
(* What the claims speak of, stated from the inputs alone *)

NLayers == Len(seismic_model)
Layer(j) == seismic_model[j + 1]

CheckOrder == <<"count", "type", "speed", "source">>
MsgOf(c) == CASE c = "count"  -> MsgLayer
              [] c = "type"   -> MsgType
              [] c = "speed"  -> MsgSpeed
              [] c = "source" -> MsgSource

ViaCheck == called = "check_input_data_correctness"
SomeLayerNotThree == \E j \in 0..NLayers - 1 : Len(Layer(j)) # 3
AllNumeric ==
    /\ \A j \in 0..NLayers - 1 :
          Len(Layer(j)) = 3 /\ \A f \in 1..3 : IsNum(Layer(j)[f])
    /\ IsNum(incid_angle)
    /\ IsNum(source_depth)
IntBounds ==
    \A j \in 0..NLayers - 1 :
        Len(Layer(j)) >= 2 /\ IsNum(Layer(j)[1]) /\ IsNum(Layer(j)[2])
Holds(j) ==
    /\ IsNum(source_depth)
    /\ Layer(j)[1].n <= source_depth.n
    /\ source_depth.n < Layer(j)[2].n
Contained == IntBounds /\ \E j \in 0..NLayers - 1 : Holds(j)
AllPositive == \A j \in 0..NLayers - 1 : Layer(j)[3].n > 0
WellFormed == AllNumeric /\ AllPositive /\ Contained

\* the lowest index of a layer that holds the source depth
FirstSource == CHOOSE j \in 0..NLayers - 1 :
                   Holds(j) /\ \A h \in 0..j - 1 : ~Holds(h)
\* N: the layers from the source layer to the last one
FromSource == NLayers - FirstSource

Built == pc \in {"render", "done"}
NEntries == Len(idxs)
AngleAt(k) == label_values[k][1]
SpeedOf(j) == Layer(j)[3].n

\* |sin(angle) * v_next / v_cur| > 1 at the boundary below the k-th entry
CriticalBelow(k) ==
    /\ idxs[k] + 1 < NLayers
    /\ Abs(AngleAt(k).sn * SpeedOf(idxs[k] + 1)) > AngleAt(k).sd * Abs(SpeedOf(idxs[k]))

\* the thickness the k-th traversed layer is to have
ThicknessOf(k) ==
    IF k = 1 THEN Abs(Layer(idxs[k])[2].n - source_depth.n)
    ELSE Abs(Layer(idxs[k])[2].n - Layer(idxs[k])[1].n)

----------------------------------------------------------------------------
(* The claims *)

\* C1: the checks run in the order count, type, speed, source and the message
\* returned is that of the last check evaluated; a model with a layer that
\* does not have exactly 3 fields yields 'Layer data is incorrect' after the
\* count check alone, and trace_ray is not run.
C1_MalformedLayerFirst ==
    ViaCheck =>
        /\ evaluated = SubSeq(CheckOrder, 1, Len(evaluated))
        /\ Len(evaluated) >= 1
        /\ result \in Messages => result = MsgOf(evaluated[Len(evaluated)])
        /\ SomeLayerNotThree =>
              /\ result = MsgLayer
              /\ evaluated = <<"count">>
              /\ pc = "returned"
              /\ traces = 0

C1_Witness ==
    /\ ViaCheck
    /\ \E j \in 0..NLayers - 1 : Len(Layer(j)) = 2
    /\ \E j \in 0..NLayers - 1 : Len(Layer(j)) = 3 /\ ~IsNum(Layer(j)[3])
    /\ ~IsNum(incid_angle)
    /\ ~IsNum(source_depth)
    /\ result = MsgLayer

\* C2: for every well-formed input check_input_data_correctness returns no
\* error message (it goes on to trace_ray).
C2_WellFormedPasses ==
    (ViaCheck /\ WellFormed) => (result \notin Messages /\ pc # "returned")

\* C3: with all fields, angle and depth numeric and some velocity <= 0 the
\* outcome is 'Speed value is not correct' and trace_ray is not run.
C3_InvalidVelocityMessage ==
    (ViaCheck /\ AllNumeric /\ ~AllPositive) =>
        (result = MsgSpeed /\ traces = 0)

\* C4: trace_ray runs only after all four checks were evaluated on the same
\* input and passed.
C4_TraceOnlyAfterValidation ==
    traces > 0 => (evaluated = CheckOrder /\ WellFormed)

\* C5: with integer bounds and a contained source depth the vertex sequence
\* has at most N+1 vertices, and exactly N+1 when no traversed boundary is
\* critical.
C5_VertexCount ==
    (Built /\ Contained) =>
        /\ Len(coords[1]) <= FromSource + 1
        /\ (\A k \in 1..NEntries : ~CriticalBelow(k)) =>
               Len(coords[1]) = FromSource + 1

\* C6: when the boundary below a traversed layer is critical, that layer's
\* entry is the last one: the loop has been left at that layer, no later
\* entry exists, and the vertex list ends with the vertex closing that layer.
C6_CriticalStops ==
    \A k \in 1..NEntries :
        (pc # "raised" /\ CriticalBelow(k)) =>
            /\ k = NEntries
            /\ Len(layers_values) = k /\ Len(label_values) = k
            /\ pc \in {"coords", "render", "done"}
            /\ i = idxs[k]
            /\ Built => (Len(coords[1]) = k + 1 /\ Len(coords[2]) = k + 1)

C6_Witness ==
    /\ pc = "done"
    /\ NLayers = 2
    /\ NEntries = 1
    /\ idxs[1] = 0
    /\ CriticalBelow(1)
    /\ Len(coords[1]) = 2

\* C7: the entries recorded are those of the layers from the lowest-index
\* layer holding the source depth on, one each; the first has the caller's
\* angle and the thickness |bottom - source_depth|, every later one the
\* full thickness |bottom - top| and the angle refracted from the entry
\* before it; nothing is recorded for the layers before.
C7_SingleSourceLayer ==
    (traces > 0 /\ IntBounds) =>
        /\ ~Contained => NEntries = 0
        /\ Contained =>
              /\ (pc = "loop" /\ i <= FirstSource) => NEntries = 0
              /\ \A k \in 1..NEntries :
                    /\ idxs[k] = FirstSource + k - 1
                    /\ layers_values[k][2] = ThicknessOf(k)
                    /\ k = 1 => AngleAt(k) = AngleOfVal(incid_angle)
                    /\ k > 1 =>
                          /\ ~AngleAt(k).obt
                          /\ <<AngleAt(k).sn, AngleAt(k).sd>> =
                                Frac(AngleAt(k - 1).sn * SpeedOf(idxs[k]),
                                     AngleAt(k - 1).sd * SpeedOf(idxs[k - 1]))

C7_Witness ==
    /\ pc = "done"
    /\ Contained
    /\ FirstSource >= 1
    /\ NEntries >= 2
    /\ Holds(idxs[2])
    /\ source_depth.n # Layer(idxs[2])[1].n
    /\ layers_values[1][2] < layers_values[2][2]

\* C8: the first vertex is (0, source_depth) and each next vertex is deeper
\* by exactly the thickness of the layer traversed, which is never negative.
C8_DepthAccumulation ==
    (Built /\ IntBounds /\ IsNum(source_depth)) =>
        /\ coords[1][1] = 0
        /\ coords[2][1] = source_depth.n
        /\ Len(coords[1]) = NEntries + 1
        /\ Len(coords[2]) = NEntries + 1
        /\ \A k \in 1..NEntries :
              /\ coords[2][k + 1] - coords[2][k] = ThicknessOf(k)
              /\ coords[2][k + 1] >= coords[2][k]

C8_Witness ==
    /\ pc = "done"
    /\ NEntries = 3
    /\ source_depth = Int_(5)
    /\ \E k \in 2..3 : Layer(idxs[k])[1].n > Layer(idxs[k])[2].n
    /\ coords[2][4] > coords[2][2]

\* C9: for consecutive traversed layers sin(theta1)/v1 = sin(theta2)/v2.
C9_SnellConsistency ==
    \A k \in 1..NEntries - 1 :
        AngleAt(k).sn * AngleAt(k + 1).sd * SpeedOf(idxs[k + 1])
            = AngleAt(k + 1).sn * AngleAt(k).sd * SpeedOf(idxs[k])

C9_Witness ==
    /\ pc = "done"
    /\ NEntries = 3
    /\ AngleAt(1).sn # 0
    /\ SpeedOf(idxs[1]) # SpeedOf(idxs[2])
    /\ SpeedOf(idxs[2]) # SpeedOf(idxs[3])
    /\ AngleAt(3) # AngleAt(1)

\* C10: with incidence angle 0, positive velocities and a contained source
\* no exception and no break occurs, every layer from the source layer to
\* the last is traversed, every angle and horizontal offset is 0 and every
\* vertex has x = 0.
C10_VerticalRay ==
    (traces > 0 /\ incid_angle = Int_(0) /\ AllNumeric /\ AllPositive /\ Contained) =>
        /\ pc # "raised"
        /\ cur_angle = DegAngle(0)
        /\ pc = "coords" => i = NLayers
        /\ \A k \in 1..NEntries : AngleAt(k) = DegAngle(0) /\ layers_values[k][1] = 0
        /\ Built =>
              /\ NEntries = FromSource
              /\ \A k \in 1..Len(coords[1]) : coords[1][k] = 0

C10_Witness ==
    /\ pc = "done"
    /\ incid_angle = Int_(0)
    /\ Contained
    /\ NEntries = 3
    /\ SpeedOf(idxs[1]) < SpeedOf(idxs[2])
    /\ SpeedOf(idxs[2]) > SpeedOf(idxs[3])
    /\ coords[1] = <<0, 0, 0, 0>>

====
